---- MODULE Spec2Model ----
(***************************************************************************)
(* Model of src/components/chat-view/chat-input/ChatUserInput.tsx:         *)
(* the mention reconciler (handleMentionNodeMutation,                      *)
(* handleCreateImageMentionables, handleMentionableDelete,                 *)
(* handleUploadImages), the preview resolver (MentionableContentPreview)   *)
(* and the mobile viewport adapter (handleVisualResize).                   *)
(***************************************************************************)
EXTENDS Integers, Sequences, FiniteSets, TLC

(* ---------------------------------------------------------------------- *)
(* Bounds of the model                                                     *)
(* ---------------------------------------------------------------------- *)
NumFiles == 1        \* vault paths 1..NumFiles
NumImages == 2       \* distinct image files a user can attach
MaxNodes == 2        \* mention-node slots in the editor
MaxCallImages == 2   \* images handed to one add-images call
MaxUploads == 1      \* image uploads decoding at the same time

Paths == 1..NumFiles
ImageNames == 1..NumImages
NodeIds == 1..MaxNodes

(* ---------------------------------------------------------------------- *)
(* Mentionables: live form, serialized form, key                           *)
(* ---------------------------------------------------------------------- *)
NoFile == [path |-> 0]

\* the "no value" of a failed deserialization (null)
Null == [type |-> "null", file |-> NoFile, startLine |-> 0, endLine |-> 0, name |-> 0]

\* no node in an editor slot / no mutation payload
NoNode == [type |-> "null", file |-> 0, startLine |-> 0, endLine |-> 0, name |-> 0]

\* displayedMentionableKey === null
NoKey == <<>>

SerFile(p) == [type |-> "file", file |-> p, startLine |-> 0, endLine |-> 0, name |-> 0]

SerBlock(p, s, e) == [type |-> "block", file |-> p, startLine |-> s, endLine |-> e, name |-> 0]

\* the serialized mentionables a mention node of the editor can carry
NodeMentionables == {SerFile(p) : p \in Paths} \cup {SerBlock(1, 1, 2)}

\* fileToMentionableImage(image): the decoded image of an image file
fileToMentionableImage(n) == [type |-> "image", file |-> NoFile, startLine |-> 0, endLine |-> 0, name |-> n]

\* serializeMentionable: the live file handle is reduced to its path
serializeMentionable(m) == [m EXCEPT !.file = m.file.path]

\* deserializeMentionable(m, app): the path is looked up in the vault; null when
\* the file is gone.  Images carry no file and always deserialize.
deserializeMentionable(s, vaultFiles) ==
  IF s.type \in {"file", "block"}
    THEN IF s.file \in vaultFiles THEN [s EXCEPT !.file = [path |-> s.file]] ELSE Null
    ELSE [s EXCEPT !.file = NoFile]

\* getMentionableKey over the serialized form
getMentionableKey(s) == <<s.type, s.file, s.startLine, s.endLine, s.name>>

\* getMentionableKey(serializeMentionable(m))
KeyOf(m) == getMentionableKey(serializeMentionable(m))

(* ---------------------------------------------------------------------- *)
(* State                                                                   *)
(* ---------------------------------------------------------------------- *)
VARIABLES
  mentionables,             \* the externally owned list (prop), live form
  displayedMentionableKey,  \* useState: key of the previewed mentionable
  nodes,                    \* editor state: slot -> serialized mentionable of its MentionNode
  vault,                    \* paths that exist in the vault (app.vault)
  pending,                  \* mutation batch the editor reported, not yet handled
  uploads,                  \* handleUploadImages calls awaiting Promise.all
  hist,                     \* the last operation and what it did
  reads,                    \* useQuery: file-content reads in flight
  cache,                    \* useQuery: resolved data by query key
  view,                     \* the viewport adapter and the chat container's style
  block                     \* one evaluation of the block preview of queryFn

vars == <<mentionables, displayedMentionableKey, nodes, vault, pending, uploads, hist,
          reads, cache, view, block>>

\* what the reconciler's handlers never touch
otherVars == <<reads, cache, view, block>>

\* op: the operation; key: the key a delete was given; cause: the operation that
\* raised the handled batch; marked/staged/dropped: keys marked for removal,
\* additions staged and staged additions that failed to deserialize in the
\* handled batch; spared: a destroyed key of the batch was kept in the list
\* because a node with it is still live; recreated: such a key was also created
\* in the batch; images: the image files of an add-images call; stale: the call
\* ran with a list that is no longer the current one
NoHist == [op |-> "none", key |-> NoKey, cause |-> "none", marked |-> 0, staged |-> 0,
           dropped |-> 0, spared |-> FALSE, recreated |-> FALSE, images |-> <<>>,
           stale |-> FALSE]

(* ---------------------------------------------------------------------- *)
(* Sequence helpers (Array.prototype)                                      *)
(* ---------------------------------------------------------------------- *)
\* list.some(m => key(m) === k) for a list of live mentionables
SomeKey(list, k) == \E i \in 1..Len(list) : KeyOf(list[i]) = k

\* added.some(m => getMentionableKey(m) === k) for a list of serialized ones
SomeSerKey(list, k) == \E i \in 1..Len(list) : getMentionableKey(list[i]) = k

\* keys.includes(k)
Includes(keys, k) == \E i \in 1..Len(keys) : keys[i] = k

\* $nodesOfType(MentionNode).find(node => key(node) === k) is defined
NodeWithSameMentionable(ns, k) ==
  \E id \in NodeIds : ns[id] # NoNode /\ getMentionableKey(ns[id]) = k

\* list.filter(m => !destroyedKeys.includes(key(m)))
FilterDestroyed(list, destroyedKeys) ==
  LET Keep(m) == ~Includes(destroyedKeys, KeyOf(m))
  IN SelectSeq(list, Keep)

\* as DeserializeAll, but without the filter: a failed one stays as null
DeserializeAll_KeepNull(added, vaultFiles) ==
  [i \in 1..Len(added) |-> deserializeMentionable(added[i], vaultFiles)]

\* added.map(m => deserializeMentionable(m, app)).filter(v => !!v)
RECURSIVE DeserializeAll(_, _)
DeserializeAll(added, vaultFiles) ==
  IF added = <<>> THEN <<>>
  ELSE LET d == deserializeMentionable(Head(added), vaultFiles)
       IN (IF d = Null THEN <<>> ELSE <<d>>) \o DeserializeAll(Tail(added), vaultFiles)

(* ---------------------------------------------------------------------- *)
(* handleMentionNodeMutation                                               *)
(* ---------------------------------------------------------------------- *)
\* as MutationStep, but a destroyed node's key is always marked for removal
MutationStep_NoLiveCheck(acc, mutation, list, ns) ==
  LET mentionableKey == getMentionableKey(mutation.node)
  IN IF mutation.mutation = "destroyed"
       THEN [acc EXCEPT !.destroyed = Append(@, mentionableKey)]
     ELSE IF mutation.mutation = "created"
       THEN IF SomeKey(list, mentionableKey) \/ SomeSerKey(acc.added, mentionableKey)
              THEN acc
              ELSE [acc EXCEPT !.added = Append(@, mutation.node)]
     ELSE acc

\* one iteration of mutations.forEach: acc = [destroyed, added]
MutationStep(acc, mutation, list, ns) ==
  LET mentionableKey == getMentionableKey(mutation.node)
  IN IF mutation.mutation = "destroyed"
       THEN IF ~NodeWithSameMentionable(ns, mentionableKey)
              THEN [acc EXCEPT !.destroyed = Append(@, mentionableKey)]
              ELSE acc
     ELSE IF mutation.mutation = "created"
       THEN IF SomeKey(list, mentionableKey) \/ SomeSerKey(acc.added, mentionableKey)
              THEN acc
              ELSE [acc EXCEPT !.added = Append(@, mutation.node)]
     ELSE acc

RECURSIVE MutationLoop(_, _, _, _)
MutationLoop(acc, batch, list, ns) ==
  IF batch = <<>> THEN acc
  ELSE MutationLoop(MutationStep(acc, Head(batch), list, ns), Tail(batch), list, ns)

\* the argument of setMentionables
NextMentionables(list, batch, ns, vaultFiles) ==
  LET r == MutationLoop([destroyed |-> <<>>, added |-> <<>>], batch, list, ns)
  IN FilterDestroyed(list, r.destroyed) \o DeserializeAll(r.added, vaultFiles)

\* as NextDisplayedKey, but the first staged addition is displayed
NextDisplayedKey_First(cur, list, batch, ns) ==
  LET r == MutationLoop([destroyed |-> <<>>, added |-> <<>>], batch, list, ns)
  IN IF Len(r.added) > 0 THEN getMentionableKey(r.added[1]) ELSE cur

\* the displayed key after the batch
NextDisplayedKey(cur, list, batch, ns) ==
  LET r == MutationLoop([destroyed |-> <<>>, added |-> <<>>], batch, list, ns)
  IN IF Len(r.added) > 0 THEN getMentionableKey(r.added[Len(r.added)]) ELSE cur

handleMentionNodeMutation ==
  /\ pending # <<>>
  /\ mentionables' = NextMentionables(mentionables, pending, nodes, vault)
  /\ displayedMentionableKey' =
       NextDisplayedKey(displayedMentionableKey, mentionables, pending, nodes)
  /\ pending' = <<>>
  /\ hist' = LET r == MutationLoop([destroyed |-> <<>>, added |-> <<>>], pending,
                                    mentionables, nodes)
              IN [NoHist EXCEPT !.op = "mutation", !.key = hist.key, !.cause = hist.op,
                    !.marked = Len(r.destroyed), !.staged = Len(r.added),
                    !.dropped = Len(r.added) - Len(DeserializeAll(r.added, vault)),
                    !.spared = \E i \in 1..Len(pending) :
                                 /\ pending[i].mutation = "destroyed"
                                 /\ SomeKey(mentionables, getMentionableKey(pending[i].node))
                                 /\ NodeWithSameMentionable(nodes,
                                       getMentionableKey(pending[i].node)),
                    !.recreated = \E i, j \in 1..Len(pending) :
                                 /\ pending[i].mutation = "destroyed"
                                 /\ pending[j].mutation = "created"
                                 /\ pending[i].node = pending[j].node
                                 /\ SomeKey(mentionables, getMentionableKey(pending[i].node))]
  /\ UNCHANGED <<nodes, vault, uploads, otherVars>>

(* ---------------------------------------------------------------------- *)
(* The editor: an update cycle changes mention nodes and reports a batch   *)
(* ---------------------------------------------------------------------- *)
\* all orders in which the mutations of a set of slots can be reported
Orders(S) == {f \in [1..Cardinality(S) -> S] : \A i, j \in 1..Cardinality(S) : f[i] = f[j] => i = j}

MutationOf(id, old, new) ==
  IF old[id] = NoNode THEN [mutation |-> "created", node |-> new[id]]
  ELSE IF new[id] = NoNode THEN [mutation |-> "destroyed", node |-> old[id]]
  ELSE [mutation |-> "updated", node |-> new[id]]

EditorUpdate ==
  /\ pending = <<>>
  /\ \E new \in [NodeIds -> NodeMentionables \cup {NoNode}] :
       /\ new # nodes
       \* a mention node never changes its mentionable
       /\ \A id \in NodeIds : nodes[id] # NoNode => new[id] \in {nodes[id], NoNode}
       /\ \E touched \in SUBSET {id \in NodeIds : new[id] # NoNode /\ new[id] = nodes[id]} :
            \E ord \in Orders({id \in NodeIds : new[id] # nodes[id]} \cup touched) :
              pending' = [i \in 1..Len(ord) |-> MutationOf(ord[i], nodes, new)]
       /\ nodes' = new
  /\ hist' = [NoHist EXCEPT !.op = "edit"]
  /\ UNCHANGED <<mentionables, displayedMentionableKey, vault, uploads, otherVars>>

(* ---------------------------------------------------------------------- *)
(* handleCreateImageMentionables                                           *)
(* ---------------------------------------------------------------------- *)
\* mentionableImages.filter(m => !mentionables.some(same key))
NewMentionableImages(list, images) ==
  LET IsNew(m) == ~SomeKey(list, KeyOf(m))
  IN SelectSeq(images, IsNew)

\* the list the call leaves behind; seen is the `mentionables` of its closure
CreateImageResult(cur, seen, images) ==
  LET new == NewMentionableImages(seen, images)
  IN IF Len(new) = 0 THEN cur ELSE seen \o new

CreateImageDisplayed(curKey, seen, images) ==
  LET new == NewMentionableImages(seen, images)
  IN IF Len(new) = 0 THEN curKey ELSE KeyOf(new[Len(new)])

ImageCalls == UNION {[1..n -> ImageNames] : n \in 1..MaxCallImages}

\* onCreateImageMentionables of the editor (paste, drop): called with the
\* callback of the current render
handleCreateImageMentionables ==
  /\ pending = <<>>
  /\ \E files \in ImageCalls :
       LET images == [i \in 1..Len(files) |-> fileToMentionableImage(files[i])]
       IN /\ mentionables' = CreateImageResult(mentionables, mentionables, images)
          /\ displayedMentionableKey' =
               CreateImageDisplayed(displayedMentionableKey, mentionables, images)
          /\ hist' = [NoHist EXCEPT !.op = "images", !.images = files]
  /\ UNCHANGED <<nodes, vault, pending, uploads, otherVars>>

(* ---------------------------------------------------------------------- *)
(* handleUploadImages                                                      *)
(* ---------------------------------------------------------------------- *)
\* the call up to its await: the closure keeps the list of this render
UploadStart ==
  /\ pending = <<>>
  /\ Cardinality(uploads) < MaxUploads
  /\ \E files \in ImageCalls :
       uploads' = uploads \cup {[files |-> files, seen |-> mentionables]}
  /\ hist' = [NoHist EXCEPT !.op = "uploadStart"]
  /\ UNCHANGED <<mentionables, displayedMentionableKey, nodes, vault, pending, otherVars>>

\* Promise.all resolved: handleCreateImageMentionables of the render that
\* started the upload runs
UploadComplete ==
  /\ pending = <<>>
  /\ \E u \in uploads :
       LET images == [i \in 1..Len(u.files) |-> fileToMentionableImage(u.files[i])]
       IN /\ mentionables' = CreateImageResult(mentionables, u.seen, images)
          /\ displayedMentionableKey' =
               CreateImageDisplayed(displayedMentionableKey, u.seen, images)
          /\ uploads' = uploads \ {u}
          /\ hist' = [NoHist EXCEPT !.op = "uploadDone", !.images = u.files,
                                    !.stale = (u.seen # mentionables)]
  /\ UNCHANGED <<nodes, vault, pending, otherVars>>

(* ---------------------------------------------------------------------- *)
(* handleMentionableDelete                                                 *)
(* ---------------------------------------------------------------------- *)
DeleteFromList(list, k) ==
  LET Keep(m) == KeyOf(m) # k
  IN SelectSeq(list, Keep)

\* as RemoveNodes, but only the first mention node with the key is removed
RemoveNodes_FirstOnly(ns, k) ==
  [id \in NodeIds |->
     IF /\ ns[id] # NoNode
        /\ getMentionableKey(ns[id]) = k
        /\ \A j \in 1..(id - 1) : ns[j] = NoNode \/ getMentionableKey(ns[j]) # k
       THEN NoNode ELSE ns[id]]

\* node.remove() on every mention node with the key
RemoveNodes(ns, k) ==
  [id \in NodeIds |-> IF ns[id] # NoNode /\ getMentionableKey(ns[id]) = k THEN NoNode ELSE ns[id]]

handleMentionableDelete ==
  /\ pending = <<>>
  /\ \E i \in 1..Len(mentionables) :
       LET mentionableKey == KeyOf(mentionables[i])
           new == RemoveNodes(nodes, mentionableKey)
       IN /\ mentionables' = DeleteFromList(mentionables, mentionableKey)
          /\ nodes' = new
          /\ \E ord \in Orders({id \in NodeIds : new[id] # nodes[id]}) :
               pending' = [j \in 1..Len(ord) |-> MutationOf(ord[j], nodes, new)]
          /\ hist' = [NoHist EXCEPT !.op = "delete", !.key = mentionableKey]
  /\ UNCHANGED <<displayedMentionableKey, vault, uploads, otherVars>>

(* ---------------------------------------------------------------------- *)
(* Badge click, addedBlockKey, the vault                                   *)
(* ---------------------------------------------------------------------- *)
\* MentionableBadge onClick: a second click on the displayed file opens it
BadgeClick ==
  /\ pending = <<>>
  /\ \E i \in 1..Len(mentionables) :
       LET m == mentionables[i]
           mentionableKey == KeyOf(m)
       IN IF /\ m.type \in {"current-file", "file", "block"}
             /\ m.file # NoFile
             /\ mentionableKey = displayedMentionableKey
            THEN \* openMarkdownFile: the host opens the file
                 /\ displayedMentionableKey' = displayedMentionableKey
                 /\ hist' = [NoHist EXCEPT !.op = "open"]
            ELSE /\ displayedMentionableKey' = mentionableKey
                 /\ hist' = [NoHist EXCEPT !.op = "click"]
  /\ UNCHANGED <<mentionables, nodes, vault, pending, uploads, otherVars>>

\* files appear in and disappear from the vault
VaultChange ==
  /\ pending = <<>>
  /\ \E v \in SUBSET Paths : v # vault /\ vault' = v
  /\ hist' = [NoHist EXCEPT !.op = "vault"]
  /\ UNCHANGED <<mentionables, displayedMentionableKey, nodes, pending, uploads, otherVars>>


(* ---------------------------------------------------------------------- *)
(* MentionableContentPreview: the preview resolver                         *)
(* ---------------------------------------------------------------------- *)
MaxReads == 2        \* file-content reads in flight at the same time
MaxCache == 2        \* resolved queries the cache keeps

\* mentionables.map(m => getMentionableKey(serializeMentionable(m)))
KeysOf(list) == [i \in 1..Len(list) |-> KeyOf(list[i])]

\* useMemo: mentionables.find(m => key(m) === displayedMentionableKey) ?? null
DisplayedMentionable(key, list) ==
  IF SomeKey(list, key)
    THEN list[CHOOSE i \in 1..Len(list) :
                /\ KeyOf(list[i]) = key
                /\ \A j \in 1..(i - 1) : KeyOf(list[j]) # key]
    ELSE Null

\* as QueryKey, but without the keys of the list
QueryKey_NoList(key, list) == <<"file", key, <<>>>>

\* queryKey of useQuery
QueryKey(key, list) == <<"file", key, KeysOf(list)>>

\* enabled of useQuery
QueryEnabled(key, list) ==
  /\ DisplayedMentionable(key, list) # Null
  /\ DisplayedMentionable(key, list).type \in {"file", "current-file", "block"}

\* the render subscribes to the current query key; with no data and no read in
\* flight for it, queryFn of this render starts reading the file
QueryStart ==
  /\ pending = <<>>
  /\ QueryEnabled(displayedMentionableKey, mentionables)
  /\ Cardinality(reads) < MaxReads
  /\ LET qk == QueryKey(displayedMentionableKey, mentionables)
     IN /\ \A r \in reads : r.queryKey # qk
        /\ \A c \in cache : c.queryKey # qk
        /\ reads' = reads \cup
             {[queryKey |-> qk,
               forKey |-> displayedMentionableKey,
               forList |-> KeysOf(mentionables),
               mentionable |-> DisplayedMentionable(displayedMentionableKey, mentionables)]}
  /\ hist' = [NoHist EXCEPT !.op = "queryStart"]
  /\ UNCHANGED <<mentionables, displayedMentionableKey, nodes, vault, pending, uploads,
                 cache, view, block>>

\* readTFileContent resolved, in any order: the data goes to the cache entry of
\* the read's query key
QueryResolve ==
  /\ pending = <<>>
  /\ Cardinality(cache) < MaxCache
  /\ \E r \in reads :
       /\ reads' = reads \ {r}
       /\ cache' = cache \cup
            {[queryKey |-> r.queryKey, forKey |-> r.forKey, forList |-> r.forList,
              content |-> serializeMentionable(r.mentionable)]}
  /\ hist' = [NoHist EXCEPT !.op = "queryResolve"]
  /\ UNCHANGED <<mentionables, displayedMentionableKey, nodes, vault, pending, uploads,
                 view, block>>

\* the cache drops the data of a query no render observes any more
QueryGc ==
  /\ pending = <<>>
  /\ \E c \in cache :
       /\ c.queryKey # QueryKey(displayedMentionableKey, mentionables)
       /\ cache' = cache \ {c}
  /\ hist' = [NoHist EXCEPT !.op = "queryGc"]
  /\ UNCHANGED <<mentionables, displayedMentionableKey, nodes, vault, pending, uploads,
                 reads, view, block>>

\* data of useQuery at render: the cache entries of the current query key
DisplayFileContent == {c \in cache : c.queryKey = QueryKey(displayedMentionableKey, mentionables)}

(* ---------------------------------------------------------------------- *)
(* The viewport adapter (useEffect with handleVisualResize)                *)
(* ---------------------------------------------------------------------- *)
KeyboardClosedThreshold == 100   \* Math.abs(viewportHeight - windowHeight) < 100
HeightNoise == 5                 \* Math.abs(clientHeight - newHeight) > 5
MaxTimers == 1                   \* setTimeout callbacks waiting at the same time

WindowHeights == {800}                        \* window.innerHeight
ViewportHeights == {800, 720, 701, 700, 500, 300, 40}  \* window.visualViewport.height
ElementTops == {0, 60}                        \* chatContainer.getBoundingClientRect().top

Abs(x) == IF x < 0 THEN -x ELSE x

\* chatContainer.clientHeight: the inline height when one is set, else the
\* height the stylesheet gives (height: 100%)
ClientHeight(v, windowHeight, elementTop) ==
  IF v.height # 0 THEN v.height ELSE windowHeight - elementTop

\* the body of handleVisualResize; an inline style of 0 stands for ''
VisualResize(v, viewportHeight, windowHeight, elementTop) ==
  IF ~v.container
    THEN v
    ELSE IF Abs(viewportHeight - windowHeight) < KeyboardClosedThreshold
      THEN [v EXCEPT !.height = 0, !.minHeight = 0, !.observed = "closed"]
      ELSE LET newHeight == viewportHeight - elementTop
               resized ==
                 IF newHeight > 0
                    /\ Abs(ClientHeight(v, windowHeight, elementTop) - newHeight) > HeightNoise
                   THEN [v EXCEPT !.height = newHeight, !.minHeight = newHeight]
                   ELSE v
           IN [resized EXCEPT !.observed = "open", !.timers = @ + 1]

\* the effect runs after the first render: off mobile it returns at once, on
\* mobile it registers the listeners and calls handleVisualResize once
Mount ==
  /\ view.phase = "new"
  /\ \E vh \in ViewportHeights, wh \in WindowHeights, top \in ElementTops :
       view' = IF view.mobile
                 THEN [VisualResize(view, vh, wh, top) EXCEPT !.phase = "mounted",
                                                              !.listening = TRUE]
                 ELSE [view EXCEPT !.phase = "mounted"]
  /\ UNCHANGED <<mentionables, displayedMentionableKey, nodes, vault, pending, uploads,
                 hist, reads, cache, block>>

\* a resize or scroll event of window.visualViewport
ViewportEvent ==
  /\ view.listening
  /\ view.timers < MaxTimers
  /\ \E vh \in ViewportHeights, wh \in WindowHeights, top \in ElementTops :
       view' = VisualResize(view, vh, wh, top)
  /\ UNCHANGED <<mentionables, displayedMentionableKey, nodes, vault, pending, uploads,
                 hist, reads, cache, block>>

\* the user moves the focus into or out of the input
FocusChange ==
  /\ view.phase = "mounted"
  /\ view' = [view EXCEPT !.focused = ~@]
  /\ UNCHANGED <<mentionables, displayedMentionableKey, nodes, vault, pending, uploads,
                 hist, reads, cache, block>>

\* the setTimeout callback: scrollIntoView when the input still has the focus
TimerFire ==
  /\ view.timers > 0
  /\ view' = [view EXCEPT !.timers = @ - 1,
                          !.scrolled = (view.phase = "mounted" /\ view.focused)]
  /\ UNCHANGED <<mentionables, displayedMentionableKey, nodes, vault, pending, uploads,
                 hist, reads, cache, block>>

\* the cleanup of the effect.  It reads containerRef.current when it runs: the
\* rendering library detaches the ref of an unmounted element either before
\* or after it runs the cleanups of effects, so the ref is null or still set.
Unmount ==
  /\ view.phase = "mounted"
  /\ \E refSet \in BOOLEAN :
       view' = IF view.mobile
                 THEN IF refSet /\ view.container
                        THEN [view EXCEPT !.phase = "unmounted", !.listening = FALSE,
                                          !.refAtCleanup = refSet,
                                          !.height = 0, !.minHeight = 0]
                        ELSE [view EXCEPT !.phase = "unmounted", !.listening = FALSE,
                                          !.refAtCleanup = refSet]
                 ELSE [view EXCEPT !.phase = "unmounted"]
  /\ UNCHANGED <<mentionables, displayedMentionableKey, nodes, vault, pending, uploads,
                 hist, reads, cache, block>>

(* ---------------------------------------------------------------------- *)
(* queryFn for a block: split, slice, join                                 *)
(* ---------------------------------------------------------------------- *)
MaxTextLen == 4      \* characters of a file's text

NewLine == 0         \* '\n'
Chars == {NewLine, 1, 2}

Min(a, b) == IF a < b THEN a ELSE b

Max(a, b) == IF a > b THEN a ELSE b

\* String.prototype.split('\n'): the lines of a text, at least one
RECURSIVE SplitLines(_, _, _)
SplitLines(text, i, cur) ==
  IF i > Len(text) THEN <<cur>>
  ELSE IF text[i] = NewLine THEN <<cur>> \o SplitLines(text, i + 1, <<>>)
  ELSE SplitLines(text, i + 1, Append(cur, text[i]))

Split(text) == SplitLines(text, 1, <<>>)

\* Array.prototype.slice(start, end): 0-indexed, end exclusive, negative
\* indexes count from the end
Slice(arr, start, end) ==
  LET from == IF start < 0 THEN Max(Len(arr) + start, 0) ELSE Min(start, Len(arr))
      to == IF end < 0 THEN Max(Len(arr) + end, 0) ELSE Min(end, Len(arr))
  IN [i \in 1..(to - from) |-> arr[from + i]]

\* Array.prototype.join('\n')
RECURSIVE Join(_)
Join(lines) ==
  IF lines = <<>> THEN <<>>
  ELSE IF Len(lines) = 1 THEN lines[1]
  ELSE lines[1] \o <<NewLine>> \o Join(Tail(lines))

\* as BlockPreview, but the start line is taken as a 0-based index
BlockPreview_ZeroBased(fileContent, startLine, endLine) ==
  Join(Slice(Split(fileContent), startLine, endLine))

\* the block branch of queryFn
BlockPreview(fileContent, startLine, endLine) ==
  Join(Slice(Split(fileContent), startLine - 1, endLine))

Texts == UNION {[1..n -> Chars] : n \in 0..MaxTextLen}

\* queryFn resolves for a displayed block mentionable
ResolveBlock ==
  /\ ~block.done
  /\ block' = [block EXCEPT !.done = TRUE,
                 !.content = BlockPreview(block.text, block.startLine, block.endLine)]
  /\ UNCHANGED <<mentionables, displayedMentionableKey, nodes, vault, pending, uploads,
                 hist, reads, cache, view>>

(* ---------------------------------------------------------------------- *)
(* Specifications                                                          *)
(* ---------------------------------------------------------------------- *)
NoBlock == [text |-> <<>>, startLine |-> 1, endLine |-> 1, content |-> <<>>, done |-> TRUE]

NoView == [mobile |-> FALSE, container |-> FALSE, phase |-> "unmounted", listening |-> FALSE,
           height |-> 0, minHeight |-> 0, observed |-> "none", timers |-> 0,
           focused |-> FALSE, scrolled |-> FALSE, refAtCleanup |-> FALSE]

InitReconciler ==
  /\ mentionables = <<>>
  /\ displayedMentionableKey = NoKey
  /\ nodes = [id \in NodeIds |-> NoNode]
  /\ vault = Paths
  /\ pending = <<>>
  /\ uploads = {}
  /\ hist = NoHist

Init ==
  /\ InitReconciler
  /\ reads = {}
  /\ cache = {}
  /\ view = NoView
  /\ block = NoBlock

\* the reconciler: editor updates, their batches, deletes, badge clicks
Next ==
  \/ EditorUpdate
  \/ handleMentionNodeMutation
  \/ handleMentionableDelete
  \/ BadgeClick
  \/ VaultChange

Spec == Init /\ [][Next]_vars

\* image attachment: pasted images, uploads that decode asynchronously, deletes
NextImages ==
  \/ handleCreateImageMentionables
  \/ UploadStart
  \/ UploadComplete
  \/ handleMentionableDelete
  \/ BadgeClick

SpecImages == Init /\ [][NextImages]_vars

\* the preview resolver under list and displayed-key changes
\* the lists of distinct file and block mentionables the component can be given
InitialLists ==
  {l \in UNION {[1..n -> NodeMentionables] : n \in 0..Cardinality(NodeMentionables)} :
     \A i, j \in 1..Len(l) : l[i] = l[j] => i = j}

InitPreview ==
  /\ \E l \in InitialLists :
       mentionables = [i \in 1..Len(l) |-> deserializeMentionable(l[i], Paths)]
  /\ displayedMentionableKey = NoKey
  /\ nodes = [id \in NodeIds |-> NoNode]
  /\ vault = Paths
  /\ pending = <<>>
  /\ uploads = {}
  /\ hist = NoHist
  /\ reads = {}
  /\ cache = {}
  /\ view = NoView
  /\ block = NoBlock

NextPreview ==
  \/ handleMentionableDelete
  \/ BadgeClick
  \/ QueryStart
  \/ QueryResolve
  \/ QueryGc

SpecPreview == InitPreview /\ [][NextPreview]_vars

\* the viewport adapter
InitViewport ==
  /\ InitReconciler
  /\ reads = {}
  /\ cache = {}
  /\ block = NoBlock
  /\ \E mobile \in BOOLEAN, container \in BOOLEAN :
       view = [NoView EXCEPT !.mobile = mobile, !.container = container, !.phase = "new"]

NextViewport ==
  \/ Mount
  \/ ViewportEvent
  \/ FocusChange
  \/ TimerFire
  \/ Unmount

SpecViewport == InitViewport /\ [][NextViewport]_vars

\* the block preview over every text and line range
InitBlock ==
  /\ InitReconciler
  /\ reads = {}
  /\ cache = {}
  /\ view = NoView
  /\ \E text \in Texts, startLine \in 1..(MaxTextLen + 1), endLine \in 1..(MaxTextLen + 1) :
       block = [text |-> text, startLine |-> startLine, endLine |-> endLine,
                content |-> <<>>, done |-> FALSE]

NextBlock == ResolveBlock

SpecBlock == InitBlock /\ [][NextBlock]_vars

(* ---------------------------------------------------------------------- *)
(* Properties                                                              *)
(* ---------------------------------------------------------------------- *)
\* a step in which handleMentionNodeMutation handles the reported batch
HandledBatch == pending # <<>> /\ pending' = <<>>

\* the elements of a finite set of numbers in increasing order
Ascending(S) ==
  CHOOSE f \in [1..Cardinality(S) -> S] :
    \A a, b \in 1..Cardinality(S) : a < b => f[a] < f[b]

Largest(S) == CHOOSE x \in S : \A y \in S : y <= x

\* the keys a batch marks for removal: destroyed, and no live node carries them
RemovalKeys(batch, ns) ==
  {getMentionableKey(batch[i].node) :
     i \in {j \in 1..Len(batch) :
              /\ batch[j].mutation = "destroyed"
              /\ \A id \in NodeIds :
                   ns[id] = NoNode \/ getMentionableKey(ns[id]) # getMentionableKey(batch[j].node)}}

\* the places of a batch that stage an addition: created, key not in the list,
\* and no earlier created mutation of the batch has the key
StagedAt(batch, list) ==
  {i \in 1..Len(batch) :
     /\ batch[i].mutation = "created"
     /\ \A k \in 1..Len(list) : KeyOf(list[k]) # getMentionableKey(batch[i].node)
     /\ \A j \in 1..(i - 1) :
          ~(batch[j].mutation = "created"
            /\ getMentionableKey(batch[j].node) = getMentionableKey(batch[i].node))}

\* C1: the mentionable list never holds two entries with the same key.
C1_UniqueKeys ==
  \A i, j \in 1..Len(mentionables) :
    KeyOf(mentionables[i]) = KeyOf(mentionables[j]) => i = j

\* C2: handling a batch never removes from the list the key of a destroyed
\* node while a live node still carries that key, also when the batch creates
\* a node with the key it destroys.
C2_LastReferenceWins ==
  [][HandledBatch =>
       \A i \in 1..Len(pending) :
         LET k == getMentionableKey(pending[i].node)
         IN (/\ pending[i].mutation = "destroyed"
             /\ \E id \in NodeIds : nodes[id] # NoNode /\ getMentionableKey(nodes[id]) = k
             /\ \E n \in 1..Len(mentionables) : KeyOf(mentionables[n]) = k)
            => \E n \in 1..Len(mentionables') : KeyOf(mentionables'[n]) = k]_vars

\* a batch that destroyed and created nodes of one key of the list was handled
\* and the key is still in the list
C2_Witness ==
  /\ hist.op = "mutation"
  /\ hist.spared
  /\ hist.recreated
  /\ mentionables # <<>>

\* C3: a delete of key K leaves no entry and no mention node with key K and
\* keeps every other entry and node; handling the batch of destroyed nodes the
\* delete raised changes neither the list nor the nodes.
C3_DeleteRemovesBoth ==
  [][/\ hist'.op = "delete" =>
          LET K == hist'.key
              NotK(m) == KeyOf(m) # K
          IN /\ \A n \in 1..Len(mentionables') : KeyOf(mentionables'[n]) # K
             /\ \A id \in NodeIds : nodes'[id] = NoNode \/ getMentionableKey(nodes'[id]) # K
             /\ mentionables' = SelectSeq(mentionables, NotK)
             /\ \A id \in NodeIds :
                  (nodes[id] = NoNode \/ getMentionableKey(nodes[id]) # K)
                    => nodes'[id] = nodes[id]
     /\ (hist.op = "delete" /\ hist'.op = "mutation") =>
          /\ \A n \in 1..Len(mentionables') : KeyOf(mentionables'[n]) # hist.key
          /\ \A id \in NodeIds :
               nodes'[id] = NoNode \/ getMentionableKey(nodes'[id]) # hist.key
          /\ mentionables' = mentionables
          /\ nodes' = nodes]_vars

\* the batch of a delete that removed nodes was handled, and entries and nodes
\* of other keys are still there
C3_Witness ==
  /\ hist.op = "mutation"
  /\ hist.cause = "delete"
  /\ hist.marked > 0
  /\ mentionables # <<>>
  /\ \E id \in NodeIds : nodes[id] # NoNode

\* C4: an add-images call whose images are all in the mentionable list by key
\* leaves the list unchanged.
C4_AddImagesIdempotent ==
  [][(/\ hist'.op \in {"images", "uploadDone"}
      /\ \A i \in 1..Len(hist'.images) :
           \E n \in 1..Len(mentionables) :
             KeyOf(mentionables[n]) = KeyOf(fileToMentionableImage(hist'.images[i])))
       => mentionables' = mentionables]_vars

\* C7: the list after a batch is the current list without the entries whose
\* key the batch marks for removal, followed by the staged additions that
\* deserialize, in batch order.
C7_BatchResult ==
  [][HandledBatch =>
       LET removal == RemovalKeys(pending, nodes)
           Kept(m) == KeyOf(m) \notin removal
           addedAt == {i \in StagedAt(pending, mentionables) :
                         deserializeMentionable(pending[i].node, vault) # Null}
           order == Ascending(addedAt)
       IN mentionables' =
            SelectSeq(mentionables, Kept) \o
            [n \in 1..Cardinality(addedAt) |->
               deserializeMentionable(pending[order[n]].node, vault)]]_vars

\* list [FileA] and a batch that created a node of a block of FileA gave
\* [FileA, BlockA], BlockA displayed
C7_Witness ==
  /\ hist.op = "mutation"
  /\ hist.staged = 1
  /\ hist.marked = 0
  /\ mentionables = <<deserializeMentionable(SerFile(1), Paths),
                      deserializeMentionable(SerBlock(1, 1, 2), Paths)>>
  /\ displayedMentionableKey = getMentionableKey(SerBlock(1, 1, 2))

\* C8 as stated: after a batch that added entries to the list the displayed
\* key is the key of the last entry added; a batch that added none leaves the
\* displayed key unchanged.
C8_Original ==
  [][HandledBatch =>
       LET addedAt == {n \in 1..Len(mentionables') :
                         \A k \in 1..Len(mentionables) :
                           KeyOf(mentionables[k]) # KeyOf(mentionables'[n])}
       IN IF addedAt # {}
            THEN displayedMentionableKey' = KeyOf(mentionables'[Largest(addedAt)])
            ELSE displayedMentionableKey' = displayedMentionableKey]_vars

\* C8 amended: after a batch that staged additions the displayed key is the
\* key of the last staged addition, whether or not it deserialized; a batch
\* that staged none leaves the displayed key unchanged.
C8_LastStagedDisplayed ==
  [][HandledBatch =>
       LET stagedAt == StagedAt(pending, mentionables)
       IN IF stagedAt # {}
            THEN displayedMentionableKey' = getMentionableKey(pending[Largest(stagedAt)].node)
            ELSE displayedMentionableKey' = displayedMentionableKey]_vars

\* a batch staged an addition that failed to deserialize: its key is displayed
\* and not in the list
C8_Witness ==
  /\ hist.op = "mutation"
  /\ hist.staged > 0
  /\ hist.dropped > 0
  /\ displayedMentionableKey # NoKey
  /\ \A n \in 1..Len(mentionables) : KeyOf(mentionables[n]) # displayedMentionableKey

\* C10: when an upload completes, the list is the list of the moment before
\* with images of the upload appended: no entry is lost, none comes back.
C10_UploadKeepsChanges ==
  [][hist'.op = "uploadDone" =>
       /\ Len(mentionables') >= Len(mentionables)
       /\ \A n \in 1..Len(mentionables) : mentionables'[n] = mentionables[n]
       /\ \A n \in (Len(mentionables) + 1)..Len(mentionables') :
            \E i \in 1..Len(hist'.images) :
              mentionables'[n] = fileToMentionableImage(hist'.images[i])]_vars

\* C5: once the last handled viewport event saw the keyboard closed the chat
\* container has no inline height and no inline min-height, and after the
\* component is unmounted it has none either.
C5_NoStaleHeight ==
  /\ view.observed = "closed" => (view.height = 0 /\ view.minHeight = 0)
  /\ view.phase = "unmounted" => (view.height = 0 /\ view.minHeight = 0)

\* C6: for a block with 1 <= startLine <= endLine <= the number of lines, the
\* preview has endLine - startLine + 1 lines, and they are the lines
\* startLine..endLine of the file, counted from 1.
C6_BlockSlice ==
  (/\ block.done
   /\ 1 <= block.startLine
   /\ block.startLine <= block.endLine
   /\ block.endLine <= Len(Split(block.text)))
    => /\ Len(Split(block.content)) = block.endLine - block.startLine + 1
       /\ \A i \in 1..(block.endLine - block.startLine + 1) :
            Split(block.content)[i] = Split(block.text)[block.startLine + i - 1]

\* lines 2..3 of a file of four lines were resolved, the first not empty
C6_Witness ==
  /\ block.done
  /\ block.startLine = 2
  /\ block.endLine = 3
  /\ Len(Split(block.text)) = 4
  /\ Len(block.content) = 2

\* C9: what the preview pane renders was resolved for the current displayed
\* key and the current list of keys.
C9_NoStaleContent ==
  \A c \in DisplayFileContent :
    /\ c.forKey = displayedMentionableKey
    /\ c.forList = KeysOf(mentionables)

\* content is rendered while the cache holds data resolved for another
\* displayed key or list and a read for yet another is still in flight
C9_Witness ==
  /\ DisplayFileContent # {}
  /\ \E c \in cache : c.forKey # displayedMentionableKey \/ c.forList # KeysOf(mentionables)
  /\ \E r \in reads : r.forKey # displayedMentionableKey \/ r.forList # KeysOf(mentionables)

====
